---- MODULE Spec2Model ----
(***************************************************************************)
(* The location hub of SafeRouteMaps (signalr-hub.ts) together with the   *)
(* part of DatabaseService it calls.  Node runs every event handler to    *)
(* completion, so each handler is one action.                              *)
(***************************************************************************)
EXTENDS Integers, Sequences, FiniteSets, TLC

\* ------------------------------------------------------------------ bounds
MaxEvents == 4    \* events (connection, message, close, error, post) handled
NumDev == 2       \* device identifiers in use
MaxTime == 0      \* Date.now() ranges over 0..MaxTime
MaxCalls == 3     \* calls the caller makes on the SignalRService
MaxDrops == 2     \* unexpected losses of the consumer's connection
MaxNum == 2       \* numbers a field of a SendLocation ranges over
NumFn == 2        \* callback functions the dashboard registers
MaxRegs == 3      \* registrations of callbacks
MaxPointId == 3   \* location ids per device in the heatmap

Sock == 1..MaxEvents                 \* no more sockets than events
Dev == 1..NumDev
Undefined == 0                       \* a field the JSON object does not carry
DevVal == Dev \cup {Undefined}
Time == 0..MaxTime
InvalidDate == -1                    \* new Date(x) with x unparsable
DateVal == {0, 1, InvalidDate}       \* from and to of a request
Rand == 1..MaxEvents                  \* random suffixes of client ids
NoId == <<>>

VARIABLES
  now,               \* Date.now() as read by the handler that ran last
  readyState,        \* socket.readyState of every socket
  clientId,          \* the clientId captured by the closures of a connection
  deviceGroups,      \* client.deviceGroups of the client object of a socket
  connectedClients,  \* the Map, as its entries in insertion order
  outbox,            \* frames written with socket.send, per socket, in order
  locations,         \* rows of table locations
  devices,           \* column status of table devices
  nevents,           \* events handled so far
  nbcast,            \* calls of broadcastLocation so far
  lastOp             \* the frame the message handler saw last

\* The consumer side: one SignalRService and the HubConnection it owns.
VARIABLES
  service,           \* fields of the SignalRService and what its observers saw
  connection,        \* the HubConnection built by the constructor
  caller             \* what the caller of the service has done and seen

hvars == <<now, readyState, clientId, deviceGroups, connectedClients, outbox,
           locations, devices, nevents, nbcast, lastOp>>

cvars == <<service, connection, caller>>

\* The dashboard side and the field-by-field view of a SendLocation.
VARIABLES
  decoded,           \* the SendLocation handled last, field by field
  callbacks,         \* the three callback arrays of the SignalRService
  handles,           \* the unsubscribe functions returned so far
  dataPoints         \* HeatmapRenderer.dataPoints, as its entries

dvars == <<decoded, callbacks, handles, dataPoints>>

vars == <<hvars, cvars, dvars>>

\* ------------------------------------------------------------ wire frames
Frame(type, id, dev, seq, locs) ==
  [type |-> type, id |-> id, deviceId |-> dev, seq |-> seq, locations |-> locs]

\* What arrives in a 'message' event: text that is not JSON, the JSON value
\* null, a JSON scalar, or a JSON object with the fields the handlers read.
RawFrame(kind, type, dev, lat, from, to) ==
  [kind |-> kind, type |-> type, deviceId |-> dev, latitude |-> lat,
   from |-> from, to |-> to]

RawFrames ==
     {RawFrame(k, "", Undefined, "absent", 0, 0) : k \in {"text", "null", "scalar"}}
  \cup {RawFrame("object", "SendLocation", d, l, 0, 0) :
           d \in DevVal, l \in {"num", "absent"}}
  \cup {RawFrame("object", t, d, "absent", 0, 0) :
           t \in {"JoinDeviceGroup", "LeaveDeviceGroup"}, d \in DevVal}
  \cup {RawFrame("object", "GetDeviceHistory", Undefined, "absent", f, t) :
           f \in DateVal, t \in DateVal}
  \cup {RawFrame("object", t, Undefined, "absent", 0, 0) :
           t \in {"ping", "Hello"}}

\* --------------------------------------------------------------- registry
generateClientId(t, r) == <<t, r>>

MapHas(m, k) == \E i \in 1..Len(m) : m[i].id = k

MapSet(m, k, v) ==
  IF MapHas(m, k)
  THEN [i \in 1..Len(m) |-> IF m[i].id = k THEN [id |-> k, client |-> v] ELSE m[i]]
  ELSE Append(m, [id |-> k, client |-> v])

MapDelete(m, k) == SelectSeq(m, LAMBDA e : e.id # k)

getConnectedClients == Len(connectedClients)

Registered(m) == {m[i].client : i \in 1..Len(m)}

\* --------------------------------------------------------------- sending
sendToClientUnguarded(rs, ob, s, frame) == [ob EXCEPT ![s] = Append(@, frame)]

sendToClientFirst(rs, ob, s, frame) ==
  IF rs[s] = "OPEN" THEN [ob EXCEPT ![s] = <<frame>> \o @] ELSE ob

sendToClient(rs, ob, s, frame) ==
  IF rs[s] = "OPEN" THEN [ob EXCEPT ![s] = Append(@, frame)] ELSE ob

SubscribedOnly(g, d) == d \in g

Subscribed(g, d) == g = {} \/ d \in g

RECURSIVE forEachSendAbort(_, _, _, _, _, _)
forEachSendAbort(m, i, rs, groups, ob, frame) ==
  IF i > Len(m) THEN ob
  ELSE LET c == m[i].client
       IN  IF (groups[c] = {} \/ frame.deviceId \in groups[c])
           THEN IF rs[c] = "OPEN"
                THEN forEachSendAbort(m, i + 1, rs, groups,
                                      [ob EXCEPT ![c] = Append(@, frame)], frame)
                ELSE ob
           ELSE forEachSendAbort(m, i + 1, rs, groups, ob, frame)

RECURSIVE forEachSend(_, _, _, _, _, _)
forEachSend(m, i, rs, groups, ob, frame) ==
  IF i > Len(m) THEN ob
  ELSE LET c == m[i].client
           ob1 == IF Subscribed(groups[c], frame.deviceId)
                  THEN sendToClient(rs, ob, c, frame)
                  ELSE ob
       IN  forEachSend(m, i + 1, rs, groups, ob1, frame)

broadcastLocation(m, rs, groups, ob, loc, seq) ==
  forEachSend(m, 1, rs, groups, ob,
              Frame("ReceiveLocation", loc.id, loc.deviceId, seq, {}))

\* ---------------------------------------------------------------- storage
RowIds(rows) == {r.id : r \in rows}

\* db.run binds every parameter: an undefined deviceId or coordinate, or an id
\* already present (PRIMARY KEY), makes it throw before a row is written.
\* saveToFile throws when the file cannot be written (io = FALSE).
insertLocation(rows, devs, loc, lat, io) ==
  IF loc.deviceId = Undefined \/ lat = "absent" \/ loc.id \in RowIds(rows)
  THEN [locations |-> rows, devices |-> devs, threw |-> TRUE,
        trace |-> <<"insertLocation">>]
  ELSE LET rows1 == rows \cup {[id |-> loc.id, device_id |-> loc.deviceId,
                                timestamp |-> loc.timestamp]}
           devs1 == [devs EXCEPT ![loc.deviceId] = "online"]
       IN  IF io
           THEN [locations |-> rows1, devices |-> devs1, threw |-> FALSE,
                 trace |-> <<"insertLocation", "row", "online", "save">>]
           ELSE [locations |-> rows1, devices |-> devs1, threw |-> TRUE,
                 trace |-> <<"insertLocation", "row", "online">>]

getLocationsByTimeRangeSwapped(rows, from, to) ==
  IF from = InvalidDate \/ to = InvalidDate
  THEN [threw |-> TRUE, rows |-> {}]
  ELSE [threw |-> FALSE,
        rows |-> {r \in rows : \/ r.timestamp >= from /\ r.timestamp <= to
                               \/ r.timestamp >= to /\ r.timestamp <= from}]

\* toISOString of an invalid Date throws a RangeError.
getLocationsByTimeRange(rows, from, to) ==
  IF from = InvalidDate \/ to = InvalidDate
  THEN [threw |-> TRUE, rows |-> {}]
  ELSE [threw |-> FALSE,
        rows |-> {r \in rows : r.timestamp >= from /\ r.timestamp <= to}]

\* ------------------------------------------------- handleClientMessage
\* What one run of a handler leaves behind.
Outcome(groups, rows, devs, ob, threw, trace, nb, calls) ==
  [groups |-> groups, locations |-> rows, devices |-> devs, outbox |-> ob,
   threw |-> threw, trace |-> trace, nbcast |-> nb, calls |-> calls]

NoChange(threw) ==
  Outcome(deviceGroups, locations, devices, outbox, threw, <<>>, nbcast, 0)

NewLocation(d, t) == [id |-> <<d, t>>, deviceId |-> d, timestamp |-> t]

HandleSendLocationBroadcastFirst(s, m, t, io) ==
  LET loc == NewLocation(m.deviceId, t)
      ob1 == broadcastLocation(connectedClients, readyState, deviceGroups,
                               outbox, loc, nbcast + 1)
      ins == insertLocation(locations, devices, loc, m.latitude, io)
  IN  Outcome(deviceGroups, ins.locations, ins.devices, ob1, ins.threw,
              <<"broadcast">> \o ins.trace, nbcast + 1, 1)

HandleSendLocationIgnoreFailure(s, m, t, io) ==
  LET loc == NewLocation(m.deviceId, t)
      ins == insertLocation(locations, devices, loc, m.latitude, io)
  IN  Outcome(deviceGroups, ins.locations, ins.devices,
              broadcastLocation(connectedClients, readyState, deviceGroups,
                                outbox, loc, nbcast + 1),
              ins.threw, Append(ins.trace, "broadcast"), nbcast + 1, 1)

HandleSendLocation(s, m, t, io) ==
  LET loc == NewLocation(m.deviceId, t)
      ins == insertLocation(locations, devices, loc, m.latitude, io)
  IN  IF ins.threw
      THEN Outcome(deviceGroups, ins.locations, ins.devices, outbox, TRUE,
                   ins.trace, nbcast, 1)
      ELSE Outcome(deviceGroups, ins.locations, ins.devices,
                   broadcastLocation(connectedClients, readyState, deviceGroups,
                                     outbox, loc, nbcast + 1),
                   FALSE, Append(ins.trace, "broadcast"), nbcast + 1, 1)

SetAddToggle(g, d) == IF d \in g THEN g \ {d} ELSE g \cup {d}

SetAdd(g, d) == g \cup {d}

SetDeleteWrongKey(g, d) == g \ {Undefined}

SetDelete(g, d) == g \ {d}

HandleJoinDeviceGroup(s, m) ==
  Outcome([deviceGroups EXCEPT ![s] = SetAdd(@, m.deviceId)],
          locations, devices, outbox, FALSE, <<>>, nbcast, 0)

HandleLeaveDeviceGroup(s, m) ==
  Outcome([deviceGroups EXCEPT ![s] = SetDelete(@, m.deviceId)],
          locations, devices, outbox, FALSE, <<>>, nbcast, 0)

RECURSIVE sendToEach(_, _, _, _, _)
sendToEach(m, i, rs, ob, frame) ==
  IF i > Len(m) THEN ob
  ELSE sendToEach(m, i + 1, rs, sendToClient(rs, ob, m[i].client, frame), frame)

HandleGetDeviceHistoryToAll(s, m) ==
  LET q == getLocationsByTimeRange(locations, m.from, m.to)
  IN  IF q.threw
      THEN Outcome(deviceGroups, locations, devices, outbox, TRUE,
                   <<"getLocationsByTimeRange">>, nbcast, 1)
      ELSE Outcome(deviceGroups, locations, devices,
                   sendToEach(connectedClients, 1, readyState, outbox,
                              Frame("ReceiveLocations", NoId, Undefined, 0,
                                    RowIds(q.rows))),
                   FALSE, <<"getLocationsByTimeRange">>, nbcast, 1)

HandleGetDeviceHistory(s, m) ==
  LET q == getLocationsByTimeRange(locations, m.from, m.to)
  IN  IF q.threw
      THEN Outcome(deviceGroups, locations, devices, outbox, TRUE,
                   <<"getLocationsByTimeRange">>, nbcast, 1)
      ELSE Outcome(deviceGroups, locations, devices,
                   sendToClient(readyState, outbox, s,
                                Frame("ReceiveLocations", NoId, Undefined, 0,
                                      RowIds(q.rows))),
                   FALSE, <<"getLocationsByTimeRange">>, nbcast, 1)

HandlePing(s) ==
  Outcome(deviceGroups, locations, devices,
          sendToClient(readyState, outbox, s, Frame("pong", NoId, Undefined, 0, {})),
          FALSE, <<>>, nbcast, 0)

HandleDefaultReply(s, m) ==
  Outcome(deviceGroups, locations, devices,
          sendToClient(readyState, outbox, s, Frame("error", NoId, Undefined, 0, {})),
          FALSE, <<>>, nbcast, 0)

HandleDefault(s, m) == NoChange(FALSE)

handleClientMessage(s, m, t, io) ==
  CASE m.type = "SendLocation"     -> HandleSendLocation(s, m, t, io)
    [] m.type = "JoinDeviceGroup"  -> HandleJoinDeviceGroup(s, m)
    [] m.type = "LeaveDeviceGroup" -> HandleLeaveDeviceGroup(s, m)
    [] m.type = "GetDeviceHistory" -> HandleGetDeviceHistory(s, m)
    [] m.type = "ping"             -> HandlePing(s)
    [] OTHER                       -> HandleDefault(s, m)

\* ws.on('message'): JSON.parse throws on text that is not JSON; reading
\* .type of null throws; a scalar has no .type; every throw is caught here.
onMessage(s, raw, t, io) ==
  IF raw.kind = "text" \/ raw.kind = "null" THEN NoChange(TRUE)
  ELSE IF raw.kind = "scalar" THEN HandleDefault(s, raw)
  ELSE handleClientMessage(s, raw, t, io)

\* ------------------------------------------------------------------ state
\* The socket a frame came from, its tag, the device it names, the
\* subscription set of the socket before it was handled and, for a history
\* request, how its date bounds lie.
Op(s, tag, dev, before, range) ==
  [sock |-> s, tag |-> tag, dev |-> dev, before |-> before, range |-> range]

NoOp == Op(0, "none", Undefined, {}, "none")

\* new Date(message.from) and new Date(message.to) of a GetDeviceHistory.
Range(raw) ==
  IF raw.kind # "object" \/ raw.type # "GetDeviceHistory" THEN "none"
  ELSE IF raw.from = InvalidDate \/ raw.to = InvalidDate THEN "invalid"
  ELSE IF raw.to < raw.from THEN "reversed"
  ELSE "ordered"

\* The clock never runs backwards and is read at most one tick later.
Clock(t) == t >= now /\ t <= now + 1

\* Suffixes drawn in millisecond t.  A suffix is only ever compared for
\* equality, so the first unused value stands for every fresh one.
SuffixesAt(t) ==
  {clientId[c][2] : c \in {x \in Sock : clientId[x] # NoId /\ clientId[x][1] = t}}

RecognizedTags ==
  {"SendLocation", "JoinDeviceGroup", "LeaveDeviceGroup", "GetDeviceHistory", "ping"}

Tag(raw) ==
  IF raw.kind = "object" /\ raw.type \in RecognizedTags THEN raw.type
  ELSE "discarded"

\* The SignalRService after its constructor: field initialisers, no observer
\* has been called, the HubConnection is built and not started.
NewService == [isConnected |-> FALSE, reconnectAttempts |-> 0, notified |-> <<>>]

NewConnection ==
  [state |-> "Disconnected", started |-> FALSE, previousRetryCount |-> 0,
   retryDelay |-> 0, timer |-> FALSE, stopWaiters |-> 0, groups |-> {}]

NewCaller ==
  [ncalls |-> 0, ndrops |-> 0, joined |-> {}, connectResult |-> "none",
   retriesBefore |-> 0]

\* A JSON value of a numeric field: a number, a string (named by the number
\* it spells, NaN when it spells none), or a field the object does not carry.
NaN == -1

Val(t, v) == [t |-> t, v |-> v]

UndefinedVal == Val("undefined", 0)

NullVal == Val("null", 0)

NumericFields == {"latitude", "longitude", "accuracy"}

NoMessage ==
  [deviceId |-> Undefined, latitude |-> UndefinedVal,
   longitude |-> UndefinedVal, accuracy |-> UndefinedVal]

NotDecoded ==
  [handled |-> FALSE, message |-> NoMessage, location |-> NoMessage,
   persisted |-> FALSE, row |-> NoMessage, broadcast |-> FALSE,
   frame |-> NoMessage]

Kinds == {"location", "connection", "status"}

Init ==
  /\ decoded = NotDecoded
  /\ callbacks = [k \in Kinds |-> <<>>]
  /\ handles = {}
  /\ dataPoints = {}
  /\ service = NewService
  /\ connection = NewConnection
  /\ caller = NewCaller
  /\ now = 0
  /\ readyState = [s \in Sock |-> "NONE"]
  /\ clientId = [s \in Sock |-> NoId]
  /\ deviceGroups = [s \in Sock |-> {}]
  /\ connectedClients = <<>>
  /\ outbox = [s \in Sock |-> <<>>]
  /\ locations = {}
  /\ devices = [d \in Dev |-> "none"]
  /\ nevents = 0
  /\ nbcast = 0
  /\ lastOp = NoOp

\* wss.on('connection'); sockets are accepted in the order of their numbers.
Accept(s, t, r) ==
  /\ readyState[s] = "NONE"
  /\ \A c \in Sock : c < s => readyState[c] # "NONE"
  /\ Clock(t)
  /\ r \in SuffixesAt(t) \cup {Cardinality(SuffixesAt(t)) + 1}
  /\ LET id == generateClientId(t, r)
         rs == [readyState EXCEPT ![s] = "OPEN"]
     IN  /\ readyState' = rs
         /\ clientId' = [clientId EXCEPT ![s] = id]
         /\ deviceGroups' = [deviceGroups EXCEPT ![s] = {}]
         /\ connectedClients' = MapSet(connectedClients, id, s)
         /\ outbox' = sendToClient(rs, outbox, s,
                                   Frame("connected", id, Undefined, 0, {}))
  /\ now' = t
  /\ nevents < MaxEvents
  /\ nevents' = nevents + 1
  /\ UNCHANGED <<locations, devices, nbcast, lastOp>>
  /\ UNCHANGED <<cvars, dvars>>

\* saveToFile is reached from insertLocation only: the outcome of the file
\* write is an input of the frames that get there.
IoOutcomes(raw) ==
  IF raw.kind = "object" /\ raw.type = "SendLocation" THEN BOOLEAN ELSE {TRUE}

MessageUncaught(s, raw, t, io) ==
  /\ readyState[s] = "OPEN"
  /\ io \in IoOutcomes(raw)
  /\ nevents < MaxEvents
  /\ Clock(t)
  /\ now' = t
  /\ nevents' = nevents + 1
  /\ lastOp' = IF Tag(raw) \in {"JoinDeviceGroup", "LeaveDeviceGroup"}
               THEN Op(s, Tag(raw), raw.deviceId, deviceGroups[s], "none")
               ELSE Op(s, Tag(raw), raw.deviceId, {}, Range(raw))
  /\ UNCHANGED clientId
  /\ UNCHANGED <<cvars, dvars>>
  /\ LET o == onMessage(s, raw, t, io)
     IN  /\ deviceGroups' = o.groups
         /\ locations' = o.locations
         /\ devices' = o.devices
         /\ outbox' = o.outbox
         /\ nbcast' = o.nbcast
         /\ IF o.threw
            THEN /\ readyState' = [c \in Sock |->
                                     IF readyState[c] = "NONE" THEN "NONE" ELSE "CLOSED"]
                 /\ connectedClients' = <<>>
            ELSE UNCHANGED <<readyState, connectedClients>>

\* ws.on('message') with handleClientMessage.
Message(s, raw, t, io) ==
  /\ readyState[s] = "OPEN"
  /\ io \in IoOutcomes(raw)
  /\ nevents < MaxEvents
  /\ Clock(t)
  /\ now' = t
  /\ nevents' = nevents + 1
  /\ lastOp' = IF Tag(raw) \in {"JoinDeviceGroup", "LeaveDeviceGroup"}
               THEN Op(s, Tag(raw), raw.deviceId, deviceGroups[s], "none")
               ELSE Op(s, Tag(raw), raw.deviceId, {}, Range(raw))
  /\ UNCHANGED <<readyState, clientId, connectedClients>>
  /\ UNCHANGED <<cvars, dvars>>
  /\ LET o == onMessage(s, raw, t, io)
     IN  /\ deviceGroups' = o.groups
         /\ locations' = o.locations
         /\ devices' = o.devices
         /\ outbox' = o.outbox
         /\ nbcast' = o.nbcast

\* ws.on('close').  ws emits it once for a socket; the handler is also run
\* again for a socket that is closed already.
Close(s) ==
  /\ readyState[s] \in {"OPEN", "CLOSING", "CLOSED"}
  /\ readyState' = [readyState EXCEPT ![s] = "CLOSED"]
  /\ connectedClients' = MapDelete(connectedClients, clientId[s])
  /\ nevents < MaxEvents
  /\ nevents' = nevents + 1
  /\ UNCHANGED <<now, clientId, deviceGroups, outbox, locations, devices,
                 nbcast, lastOp>>
  /\ UNCHANGED <<cvars, dvars>>

\* ws.on('error'): the transport is broken, the handler only logs.
Error(s) ==
  /\ readyState[s] = "OPEN"
  /\ readyState' = [readyState EXCEPT ![s] = "CLOSING"]
  /\ nevents < MaxEvents
  /\ nevents' = nevents + 1
  /\ UNCHANGED <<now, clientId, deviceGroups, connectedClients, outbox,
                 locations, devices, nbcast, lastOp>>
  /\ UNCHANGED <<cvars, dvars>>

\* app.post('/api/locations'): the other caller of broadcastLocation.
PostLocation(d, lat, t, io) ==
  /\ nevents < MaxEvents
  /\ Clock(t)
  /\ nevents' = nevents + 1
  /\ now' = t
  /\ lastOp' = NoOp
  /\ UNCHANGED <<readyState, clientId, deviceGroups, connectedClients>>
  /\ UNCHANGED <<cvars, dvars>>
  /\ IF d = Undefined \/ lat = "absent"
     THEN UNCHANGED <<locations, devices, outbox, nbcast>>
     ELSE LET o == HandleSendLocation(0, [deviceId |-> d, latitude |-> lat], t, io)
          IN  /\ locations' = o.locations
              /\ devices' = o.devices
              /\ outbox' = o.outbox
              /\ nbcast' = o.nbcast

Next ==
  \/ \E s \in Sock, t \in Time, r \in Rand : Accept(s, t, r)
  \/ \E s \in Sock, raw \in RawFrames, t \in Time, io \in BOOLEAN :
        Message(s, raw, t, io)
  \/ \E s \in Sock : Close(s)
  \/ \E s \in Sock : Error(s)
  \/ \E d \in DevVal, lat \in {"num", "absent"}, t \in Time, io \in BOOLEAN :
        PostLocation(d, lat, t, io)

Spec == Init /\ [][Next]_vars

TypeOK ==
  /\ now \in Time
  /\ readyState \in [Sock -> {"NONE", "OPEN", "CLOSING", "CLOSED"}]
  /\ deviceGroups \in [Sock -> SUBSET DevVal]
  /\ devices \in [Dev -> {"none", "online", "offline"}]
  /\ nevents \in 0..MaxEvents
  /\ Registered(connectedClients) \subseteq Sock

\* ------------------------------------------------ broadcastDeviceStatus
Status == {"online", "offline"}

\* The exported broadcastDeviceStatus(deviceId, status), called by another
\* module of the server: forEach over the registry, sendToClient for each.
broadcastDeviceStatus(d, status) ==
  /\ nevents < MaxEvents
  /\ nevents' = nevents + 1
  /\ lastOp' = NoOp
  /\ outbox' = sendToEach(connectedClients, 1, readyState, outbox,
                          Frame("DeviceStatusChanged", <<status>>, d, 0, {}))
  /\ UNCHANGED <<now, readyState, clientId, deviceGroups, connectedClients,
                 locations, devices, nbcast>>
  /\ UNCHANGED <<cvars, dvars>>

\* The hub together with a caller of broadcastDeviceStatus.
NextStatus ==
  \/ \E s \in Sock, t \in Time, r \in Rand : Accept(s, t, r)
  \/ \E s \in Sock, raw \in RawFrames, t \in Time, io \in BOOLEAN :
        Message(s, raw, t, io)
  \/ \E s \in Sock : Close(s)
  \/ \E s \in Sock : Error(s)
  \/ \E d \in DevVal, lat \in {"num", "absent"}, t \in Time, io \in BOOLEAN :
        PostLocation(d, lat, t, io)
  \/ \E d \in Dev, status \in Status : broadcastDeviceStatus(d, status)

SpecStatus == Init /\ [][NextStatus]_vars

\* ------------------------------------------------ SignalRService (consumer)
maxReconnectAttempts == 10

Null == -1                           \* the policy's "stop reconnecting"

Min(a, b) == IF a <= b THEN a ELSE b

nextRetryDelayInMillisecondsNoCap(previousRetryCount) ==
  IF previousRetryCount >= maxReconnectAttempts THEN Null
  ELSE 1000 * 2^previousRetryCount

nextRetryDelayInMillisecondsOneMore(previousRetryCount) ==
  IF previousRetryCount > maxReconnectAttempts THEN Null
  ELSE Min(1000 * 2^previousRetryCount, 30000)

\* The retry policy handed to withAutomaticReconnect.
nextRetryDelayInMilliseconds(previousRetryCount) ==
  IF previousRetryCount >= maxReconnectAttempts THEN Null
  ELSE Min(1000 * 2^previousRetryCount, 30000)

\* onConnectionChangeCallbacks.forEach(callback => callback(flag))
Notify(sv, flag) == [sv EXCEPT !.notified = Append(@, flag)]

onreconnecting(sv) == Notify([sv EXCEPT !.isConnected = FALSE], FALSE)

onreconnected(sv) ==
  Notify([sv EXCEPT !.isConnected = TRUE, !.reconnectAttempts = 0], TRUE)

onclose(sv) == Notify([sv EXCEPT !.isConnected = FALSE], FALSE)

\* connect() after connection.start() resolved, and after it rejected.
connectResolvedSilent(sv) ==
  [sv EXCEPT !.isConnected = TRUE, !.reconnectAttempts = 0]

connectResolved(sv) ==
  Notify([sv EXCEPT !.isConnected = TRUE, !.reconnectAttempts = 0], TRUE)

connectRejected(sv) == Notify([sv EXCEPT !.isConnected = FALSE], FALSE)

\* disconnect() after connection.stop() resolved.
disconnectResumed(sv) == Notify([sv EXCEPT !.isConnected = FALSE], FALSE)

RECURSIVE Resume(_, _)
Resume(sv, n) == IF n = 0 THEN sv ELSE Resume(disconnectResumed(sv), n - 1)

\* HubConnection: the connection is closed for good; onclose callbacks run
\* only for a connection that had been started.
completeClose(cn) ==
  [cn EXCEPT !.state = "Disconnected", !.started = FALSE, !.timer = FALSE,
             !.retryDelay = 0, !.stopWaiters = 0]

Called == [caller EXCEPT !.ncalls = @ + 1]

\* connect(): start() moves a connection that is Disconnected to Connecting
\* and rejects at once in every other state.
connect ==
  /\ caller.ncalls < MaxCalls
  /\ IF connection.state = "Disconnected"
     THEN /\ connection' = [connection EXCEPT !.state = "Connecting"]
          /\ caller' = [Called EXCEPT !.connectResult = "pending"]
          /\ UNCHANGED service
     ELSE /\ service' = connectRejected(service)
          /\ caller' = [Called EXCEPT !.connectResult = "rejected"]
          /\ UNCHANGED connection
  /\ UNCHANGED <<hvars, dvars>>

\* start() resolves: the hub has accepted a new connection, whose
\* subscription set is a new empty Set.
StartSucceeds ==
  /\ connection.state = "Connecting"
  /\ connection' = [connection EXCEPT !.state = "Connected", !.started = TRUE,
                                      !.groups = {}]
  /\ service' = connectResolved(service)
  /\ caller' = [caller EXCEPT !.connectResult = "resolved"]
  /\ UNCHANGED <<hvars, dvars>>

\* start() rejects: no automatic reconnect follows a failed first start.
StartFails ==
  /\ connection.state = "Connecting"
  /\ connection' = [connection EXCEPT !.state = "Disconnected"]
  /\ service' = connectRejected(service)
  /\ caller' = [caller EXCEPT !.connectResult = "rejected"]
  /\ UNCHANGED <<hvars, dvars>>

DropKeepsCount ==
  /\ connection.state = "Connected"
  /\ caller.ndrops < MaxDrops
  /\ caller' = [caller EXCEPT !.ndrops = @ + 1]
  /\ LET d == nextRetryDelayInMilliseconds(connection.previousRetryCount)
     IN  IF d = Null
         THEN /\ connection' = completeClose(connection)
              /\ service' = onclose(service)
         ELSE /\ connection' = [connection EXCEPT !.state = "Reconnecting",
                                   !.retryDelay = d, !.timer = TRUE]
              /\ service' = onreconnecting(service)
  /\ UNCHANGED <<hvars, dvars>>

\* The established connection is lost: the reconnect loop starts with
\* previousRetryCount 0, asks the policy and arms the retry timer.
Drop ==
  /\ connection.state = "Connected"
  /\ caller.ndrops < MaxDrops
  /\ caller' = [caller EXCEPT !.ndrops = @ + 1]
  /\ LET d == nextRetryDelayInMilliseconds(0)
     IN  IF d = Null
         THEN /\ connection' = completeClose(connection)
              /\ service' = onclose(service)
         ELSE /\ connection' = [connection EXCEPT !.state = "Reconnecting",
                                   !.previousRetryCount = 0,
                                   !.retryDelay = d, !.timer = TRUE]
              /\ service' = onreconnecting(service)
  /\ UNCHANGED <<hvars, dvars>>

\* The retry timer fires and the attempt succeeds: a new hub connection.
RetrySucceeds ==
  /\ connection.state = "Reconnecting" /\ connection.timer
  /\ connection' = [connection EXCEPT !.state = "Connected", !.timer = FALSE,
                                      !.retryDelay = 0, !.groups = {}]
  /\ service' = onreconnected(service)
  /\ caller' = [caller EXCEPT !.retriesBefore = connection.previousRetryCount]
  /\ UNCHANGED <<hvars, dvars>>

\* The retry timer fires and the attempt fails: the policy is asked again
\* with one more retry counted.
RetryFails ==
  /\ connection.state = "Reconnecting" /\ connection.timer
  /\ LET n == connection.previousRetryCount + 1
         d == nextRetryDelayInMilliseconds(n)
     IN  IF d = Null
         THEN /\ connection' = [completeClose(connection) EXCEPT
                                   !.previousRetryCount = n]
              /\ service' = onclose(service)
         ELSE /\ connection' = [connection EXCEPT !.previousRetryCount = n,
                                   !.retryDelay = d]
              /\ UNCHANGED service
  /\ UNCHANGED <<caller, hvars, dvars>>

disconnectKeepsTimer ==
  /\ caller.ncalls < MaxCalls
  /\ caller' = Called
  /\ CASE connection.state \in {"Disconnected", "Reconnecting"} ->
            /\ service' = disconnectResumed(service)
            /\ UNCHANGED connection
       [] connection.state \in {"Connected", "Connecting"} ->
            /\ connection' = [connection EXCEPT !.state = "Disconnecting",
                                                !.stopWaiters = 1]
            /\ UNCHANGED service
       [] OTHER ->
            /\ connection' = [connection EXCEPT !.stopWaiters = @ + 1]
            /\ UNCHANGED service
  /\ UNCHANGED <<hvars, dvars>>

\* disconnect(): stop() resolves at once for a connection that is
\* Disconnected; with the retry timer armed it clears the timer and closes;
\* otherwise the connection is Disconnecting until the transport has closed.
disconnect ==
  /\ caller.ncalls < MaxCalls
  /\ caller' = Called
  /\ CASE connection.state = "Disconnected" ->
            /\ service' = disconnectResumed(service)
            /\ UNCHANGED connection
       [] connection.state = "Reconnecting" ->
            /\ connection' = completeClose(connection)
            /\ service' = disconnectResumed(onclose(service))
       [] connection.state \in {"Connected", "Connecting"} ->
            /\ connection' = [connection EXCEPT !.state = "Disconnecting",
                                                !.stopWaiters = 1]
            /\ UNCHANGED service
       [] OTHER ->
            /\ connection' = [connection EXCEPT !.stopWaiters = @ + 1]
            /\ UNCHANGED service
  /\ UNCHANGED <<hvars, dvars>>

\* The transport has closed after stop(): a started connection runs onclose,
\* a start that was still pending rejects into the catch of connect(); then
\* every disconnect() that awaited stop() resumes.
StopCompletes ==
  /\ connection.state = "Disconnecting"
  /\ connection' = completeClose(connection)
  /\ IF connection.started
     THEN /\ service' = Resume(onclose(service), connection.stopWaiters)
          /\ UNCHANGED caller
     ELSE /\ service' = Resume(connectRejected(service), connection.stopWaiters)
          /\ caller' = [caller EXCEPT !.connectResult = "rejected"]
  /\ UNCHANGED <<hvars, dvars>>

\* joinDeviceGroup(deviceId): throws unless isConnected; invoke reaches the
\* hub's JoinDeviceGroup handler only over a connection that is Connected.
joinDeviceGroup(d) ==
  /\ caller.ncalls < MaxCalls
  /\ IF service.isConnected /\ connection.state = "Connected"
     THEN /\ connection' = [connection EXCEPT !.groups = SetAdd(@, d)]
          /\ caller' = [Called EXCEPT !.joined = @ \cup {d}]
     ELSE /\ caller' = Called
          /\ UNCHANGED connection
  /\ UNCHANGED <<service, hvars, dvars>>

leaveDeviceGroup(d) ==
  /\ caller.ncalls < MaxCalls
  /\ IF service.isConnected /\ connection.state = "Connected"
     THEN /\ connection' = [connection EXCEPT !.groups = SetDelete(@, d)]
          /\ caller' = [Called EXCEPT !.joined = @ \ {d}]
     ELSE /\ caller' = Called
          /\ UNCHANGED connection
  /\ UNCHANGED <<service, hvars, dvars>>

NextClient ==
  \/ connect
  \/ StartSucceeds
  \/ StartFails
  \/ Drop
  \/ RetrySucceeds
  \/ RetryFails
  \/ disconnect
  \/ StopCompletes
  \/ \E d \in Dev : joinDeviceGroup(d)
  \/ \E d \in Dev : leaveDeviceGroup(d)

SpecClient == Init /\ [][NextClient]_vars

\* ------------------------------------------- SendLocation, field by field
JsonNumber == {Val("number", n) : n \in 1..MaxNum}

JsonString == {Val("string", n) : n \in (1..MaxNum) \cup {NaN}}

FieldVal == JsonNumber \cup JsonString \cup {UndefinedVal}

SendLocationMessages ==
  [deviceId : Dev, latitude : FieldVal, longitude : FieldVal, accuracy : FieldVal]

\* The object literal of case 'SendLocation': every field is copied.
LocationUpdate(m) ==
  [deviceId |-> m.deviceId, latitude |-> m.latitude,
   longitude |-> m.longitude, accuracy |-> m.accuracy]

\* A column of type REAL keeps a number, turns text that spells a number into
\* that number and keeps any other text as text.
RealColumn(v) ==
  IF v.t = "string" /\ v.v # NaN THEN Val("number", v.v) ELSE v

\* The row db.run writes: latitude and longitude are bound as they are,
\* accuracy ?? null.
LocationRow(loc) ==
  [deviceId |-> loc.deviceId,
   latitude |-> RealColumn(loc.latitude),
   longitude |-> RealColumn(loc.longitude),
   accuracy |-> IF loc.accuracy = UndefinedVal THEN NullVal
                ELSE RealColumn(loc.accuracy)]

\* db.run throws on a bound value that is undefined.
BindThrows(loc) == loc.latitude = UndefinedVal \/ loc.longitude = UndefinedVal

\* JSON.stringify({type: 'ReceiveLocation', ...location}): a field that is
\* undefined is left out, every other value is written as it is.
ReceiveLocation(loc) ==
  [type |-> "ReceiveLocation", deviceId |-> loc.deviceId,
   latitude |-> loc.latitude, longitude |-> loc.longitude,
   accuracy |-> loc.accuracy]

\* case 'SendLocation' seen field by field: build the LocationUpdate, insert
\* it and, when the insert returned, broadcast it.
SendLocation(m) ==
  /\ LET loc == LocationUpdate(m)
     IN  decoded' =
           IF BindThrows(loc)
           THEN [handled |-> TRUE, message |-> m, location |-> loc,
                 persisted |-> FALSE, row |-> NoMessage,
                 broadcast |-> FALSE, frame |-> NoMessage]
           ELSE [handled |-> TRUE, message |-> m, location |-> loc,
                 persisted |-> TRUE, row |-> LocationRow(loc),
                 broadcast |-> TRUE, frame |-> ReceiveLocation(loc)]
  /\ UNCHANGED <<hvars, cvars, callbacks, handles, dataPoints>>

NextDecode == \E m \in SendLocationMessages : SendLocation(m)

SpecDecode == Init /\ [][NextDecode]_vars

\* ------------------------------------------------- observer registration
Fn == 1..NumFn                       \* the callback functions

\* An element of a callback array is the function pushed; reg numbers the
\* push that put it there and is read by no operator of the service.
Entry(f, n) == [fn |-> f, reg |-> n]

\* Array.prototype.indexOf: the first index holding the function, else -1.
indexOf(list, f) ==
  IF \E i \in 1..Len(list) : list[i].fn = f
  THEN CHOOSE i \in 1..Len(list) :
          list[i].fn = f /\ \A j \in 1..(i - 1) : list[j].fn # f
  ELSE -1

\* Array.prototype.splice(index, 1)
splice(list, i) == SubSeq(list, 1, i - 1) \o SubSeq(list, i + 1, Len(list))

\* callbacks.push(callback) on the array of kind k.
push(k, f) ==
  [callbacks EXCEPT ![k] = Append(@, Entry(f, Cardinality(handles) + 1))]

\* The closure a registration returns: it holds the array and the callback.
Handle(k, f) == [kind |-> k, fn |-> f, reg |-> Cardinality(handles) + 1]

onLocationUpdate(f) ==
  /\ Cardinality(handles) < MaxRegs
  /\ callbacks' = push("location", f)
  /\ handles' = handles \cup {Handle("location", f)}
  /\ UNCHANGED <<hvars, cvars, decoded, dataPoints>>

onConnectionChange(f) ==
  /\ Cardinality(handles) < MaxRegs
  /\ callbacks' = push("connection", f)
  /\ handles' = handles \cup {Handle("connection", f)}
  /\ UNCHANGED <<hvars, cvars, decoded, dataPoints>>

onDeviceStatus(f) ==
  /\ Cardinality(handles) < MaxRegs
  /\ callbacks' = push("status", f)
  /\ handles' = handles \cup {Handle("status", f)}
  /\ UNCHANGED <<hvars, cvars, decoded, dataPoints>>

\* A call of a returned unsubscribe function: indexOf(callback), then splice
\* when the index is > -1.
Unsubscribe(h) ==
  /\ h \in handles
  /\ LET index == indexOf(callbacks[h.kind], h.fn)
     IN  callbacks' = IF index > -1
                      THEN [callbacks EXCEPT ![h.kind] = splice(@, index)]
                      ELSE callbacks
  /\ UNCHANGED <<hvars, cvars, decoded, handles, dataPoints>>

NextObservers ==
  \/ \E f \in Fn : onLocationUpdate(f)
  \/ \E f \in Fn : onConnectionChange(f)
  \/ \E f \in Fn : onDeviceStatus(f)
  \/ \E h \in handles : Unsubscribe(h)

SpecObservers == Init /\ [][NextObservers]_vars

\* ------------------------------------------------------ HeatmapRenderer
\* Strings are their characters; a digit is its number and '_' is Underscore.
Underscore == 10

\* The device ids "1", "10" and "2".
DeviceNames == {<<1>>, <<1, 0>>, <<2>>}

PointIds == 1..MaxPointId

HeatLocations == [deviceId : DeviceNames, id : PointIds]

\* `${location.deviceId}_${location.id}`
KeyOf(location) == location.deviceId \o <<Underscore, location.id>>

\* String.prototype.startsWith
startsWith(str, prefix) ==
  Len(prefix) <= Len(str) /\ SubSeq(str, 1, Len(prefix)) = prefix

\* Map.prototype.set and delete on the entries of dataPoints.
PointsSet(points, key, location) ==
  {e \in points : e.key # key} \cup {[key |-> key, location |-> location]}

PointsDelete(points, keys) == {e \in points : e.key \notin keys}

addPoint(location) ==
  /\ dataPoints' = PointsSet(dataPoints, KeyOf(location), location)
  /\ UNCHANGED <<hvars, cvars, decoded, callbacks, handles>>

\* updatePoint: collect the keys that start with the device id, delete them,
\* then set the new point.
updatePoint(location) ==
  /\ LET keysToRemove == {e.key : e \in {x \in dataPoints :
                                           startsWith(x.key, location.deviceId)}}
     IN  dataPoints' = PointsSet(PointsDelete(dataPoints, keysToRemove),
                                 KeyOf(location), location)
  /\ UNCHANGED <<hvars, cvars, decoded, callbacks, handles>>

clear ==
  /\ dataPoints' = {}
  /\ UNCHANGED <<hvars, cvars, decoded, callbacks, handles>>

NextHeatmap ==
  \/ \E location \in HeatLocations : addPoint(location)
  \/ \E location \in HeatLocations : updatePoint(location)
  \/ clear

SpecHeatmap == Init /\ [][NextHeatmap]_vars

\* ----------------------------------------------------------- properties
\* Frames a step appends to the outbox of c.
NewFrames(c) == SubSeq(outbox'[c], Len(outbox[c]) + 1, Len(outbox'[c]))

Appended(c) == Len(outbox'[c]) >= Len(outbox[c])
               /\ SubSeq(outbox'[c], 1, Len(outbox[c])) = outbox[c]

IsLocationFrame(f, d) == f.type = "ReceiveLocation" /\ f.deviceId = d

CountLocation(fs, d) == Cardinality({i \in DOMAIN fs : IsLocationFrame(fs[i], d)})

HasLocation(c, d) == \E i \in DOMAIN outbox[c] : IsLocationFrame(outbox[c][i], d)

InRegistry(c) == c \in Registered(connectedClients)

\* A step of the message handler leaves its clock reading in now and the
\* sender, the type, the deviceId and the range class of its frame in lastOp:
\* no other socket and no other frame can be the s and raw of the step.
Sender == {s \in Sock : lastOp'.sock = s}

Seen(frames) ==
  {raw \in frames : /\ Tag(raw) = lastOp'.tag
                    /\ raw.deviceId = lastOp'.dev
                    /\ Range(raw) = lastOp'.range}

\* The step is the message handler run on frame raw of socket s.
Handled(s, raw, io) == Message(s, raw, now', io)

SendLocationFrames ==
  {raw \in RawFrames : raw.kind = "object" /\ raw.type = "SendLocation"}

RequestFrames ==
  {raw \in RawFrames :
     raw.kind = "object" /\ raw.type \in {"GetDeviceHistory", "ping"}}

\* Frames that are not JSON objects or carry no recognized type.
DiscardedFrames ==
  {raw \in RawFrames : raw.kind # "object" \/ raw.type \notin RecognizedTags}

\* A step that broadcasts an update for device d.
BroadcastStep(d) ==
  /\ nbcast' # nbcast
  /\ \/ \E s \in Sender, raw \in Seen(SendLocationFrames), io \in BOOLEAN :
          raw.deviceId = d /\ Handled(s, raw, io)
     \/ \E lat \in {"num", "absent"}, io \in BOOLEAN :
          PostLocation(d, lat, now', io)

\* C1: every broadcast of an update for device D gives each registered
\* connection with an open transport exactly one ReceiveLocation for D when its
\* subscription set is empty or contains D, and none otherwise.
C1_TargetSelection ==
  [][\A d \in DevVal : BroadcastStep(d) =>
       \A c \in Sock : (InRegistry(c) /\ readyState[c] = "OPEN") =>
          /\ Appended(c)
          /\ CountLocation(NewFrames(c), d) =
               (IF deviceGroups[c] = {} \/ d \in deviceGroups[c] THEN 1 ELSE 0)
          /\ Len(NewFrames(c)) = CountLocation(NewFrames(c), d)]_vars

\* One connection joined to device 1 and one with no subscriptions, both
\* registered and open: only the second holds an update of device 2.
C1_Witness ==
  \E c1 \in Sock, c2 \in Sock :
     /\ InRegistry(c1) /\ InRegistry(c2)
     /\ readyState[c1] = "OPEN" /\ readyState[c2] = "OPEN"
     /\ deviceGroups[c1] = {1} /\ deviceGroups[c2] = {}
     /\ HasLocation(c2, 2) /\ ~HasLocation(c1, 2)

\* C2: once the close of a connection has been handled it is a target of no
\* later broadcast, and handling a close (also a repeated one) removes at most
\* the registry entry of that connection.
C2_CloseRemovesOwnEntryOnly ==
  [][\A s \in Sock :
       /\ readyState[s] = "CLOSED" => (s \notin Registered(connectedClients')
                                       /\ outbox'[s] = outbox[s])
       /\ Close(s) => /\ s \notin Registered(connectedClients')
                      /\ \A c \in Sock \ {s} :
                            InRegistry(c) => c \in Registered(connectedClients')]_vars

C4_NoSendUnlessOpen ==
  [][/\ \A c \in Sock : outbox'[c] # outbox[c] =>
           (readyState'[c] = "OPEN" /\ readyState[c] \in {"NONE", "OPEN"})
     /\ nbcast' # nbcast =>
           \A s \in Sender, raw \in Seen(RawFrames), io \in BOOLEAN :
              Handled(s, raw, io) => ~onMessage(s, raw, now', io).threw]_vars

\* A connection joined device 1, its transport broke, and an update of
\* device 1 posted after that was stored and broadcast: the registry still
\* holds the stale handle, and nothing of the update was written to it.
C4_Witness ==
  \E c \in Sock :
     /\ readyState[c] = "CLOSING" /\ InRegistry(c)
     /\ deviceGroups[c] = {1}
     /\ lastOp = NoOp /\ nbcast = 1
     /\ \E r \in locations : r.device_id = 1
     /\ ~HasLocation(c, 1)

\* C5: the ReceiveLocation frames one connection receives are in the order in
\* which their updates were broadcast.
C5_PerConnectionOrder ==
  \A c \in Sock : \A i \in DOMAIN outbox[c], j \in DOMAIN outbox[c] :
     (i < j /\ outbox[c][i].type = "ReceiveLocation"
            /\ outbox[c][j].type = "ReceiveLocation")
     => outbox[c][i].seq < outbox[c][j].seq

\* A connection holds two updates, the second one sent in by another socket.
C5_Witness ==
  \E c \in Sock : \E i \in DOMAIN outbox[c], j \in DOMAIN outbox[c] :
     /\ i < j
     /\ outbox[c][i].type = "ReceiveLocation"
     /\ outbox[c][j].type = "ReceiveLocation"
     /\ lastOp.sock \in Sock \ {c} /\ lastOp.tag = "SendLocation"

\* Everything the hub holds apart from the bookkeeping of the model.
HubUnchanged ==
  UNCHANGED <<readyState, clientId, deviceGroups, connectedClients, outbox,
              locations, devices, nbcast>>

JoinFrame(d) == RawFrame("object", "JoinDeviceGroup", d, "absent", 0, 0)

LeaveFrame(d) == RawFrame("object", "LeaveDeviceGroup", d, "absent", 0, 0)

\* C6: for a connection not subscribed to X, JoinDeviceGroup{X} directly
\* followed by LeaveDeviceGroup{X} leaves its subscription set, and so the
\* broadcasts it is a target of, as they were before the join.
C6_JoinThenLeave ==
  [][\A s \in Sock, d \in DevVal :
       (/\ lastOp.sock = s /\ lastOp.tag = "JoinDeviceGroup" /\ lastOp.dev = d
        /\ d \notin lastOp.before
        /\ \E io \in BOOLEAN : Handled(s, LeaveFrame(d), io))
       => /\ deviceGroups'[s] = lastOp.before
          /\ \A e \in DevVal :
               (deviceGroups'[s] = {} \/ e \in deviceGroups'[s])
                 <=> (lastOp.before = {} \/ e \in lastOp.before)]_vars

\* A connection has joined a device it was not subscribed to and left it at
\* once; its subscription set is the one it had before.
C6_Witness ==
  \E s \in Sock :
     /\ lastOp.sock = s /\ lastOp.tag = "LeaveDeviceGroup"
     /\ lastOp.dev \in lastOp.before
     /\ deviceGroups[s] = lastOp.before \ {lastOp.dev}
     /\ nevents = 3 /\ nbcast = 0 /\ Len(outbox[s]) = 1

\* C7: a JoinDeviceGroup for a device already in the subscription set and a
\* LeaveDeviceGroup for a device not in it change nothing and raise no error.
C7_Idempotent ==
  [][\A s \in Sender, d \in DevVal, io \in BOOLEAN :
       /\ (d \in deviceGroups[s] /\ Handled(s, JoinFrame(d), io))
            => (HubUnchanged /\ ~onMessage(s, JoinFrame(d), now', io).threw)
       /\ (d \notin deviceGroups[s] /\ Handled(s, LeaveFrame(d), io))
            => (HubUnchanged /\ ~onMessage(s, LeaveFrame(d), now', io).threw)]_vars

\* A second join of the same device has just been handled.
C7_Witness ==
  \E s \in Sock :
     /\ lastOp.sock = s /\ lastOp.tag = "JoinDeviceGroup"
     /\ lastOp.dev \in Dev
     /\ lastOp.dev \in lastOp.before
     /\ deviceGroups[s] = lastOp.before

\* C8: a frame that is not well-formed, or whose type is no recognized tag, is
\* discarded: the sender stays registered and open, no registry entry, no
\* subscription set and no table changes, no storage call is made and nothing
\* is sent to anyone.
C8_MalformedDiscarded ==
  [][\A s \in Sender, raw \in Seen(DiscardedFrames), io \in BOOLEAN :
       Handled(s, raw, io)
       => /\ HubUnchanged
          /\ onMessage(s, raw, now', io).calls = 0
          /\ onMessage(s, raw, now', io).trace = <<>>]_vars

\* A registered, open connection whose last frame was discarded.
C8_Witness ==
  \E s \in Sock :
     /\ lastOp.sock = s /\ lastOp.tag = "discarded"
     /\ InRegistry(s) /\ readyState[s] = "OPEN"
     /\ \E o \in Sock \ {s} : InRegistry(o) /\ readyState[o] = "OPEN"

\* The update of a ReceiveLocation frame is stored and its device online.
Persisted(f) ==
  f.type = "ReceiveLocation" =>
     /\ \E r \in locations : r.id = f.id
     /\ f.deviceId \in Dev /\ devices[f.deviceId] = "online"

AllPersisted == \A c \in Sock : \A i \in DOMAIN outbox[c] : Persisted(outbox[c][i])

\* C9: handling a SendLocation persists the update, marks the device online
\* and only then broadcasts it; no connection holds a ReceiveLocation of an
\* update for which the persist call has not been made.
C9_PersistBeforeBroadcast ==
  [][/\ AllPersisted'
     /\ \A s \in Sender, raw \in Seen(SendLocationFrames), io \in BOOLEAN :
          Handled(s, raw, io)
          => LET tr == onMessage(s, raw, now', io).trace
             IN  /\ tr[1] = "insertLocation"
                 /\ \A i \in DOMAIN tr : tr[i] = "broadcast" =>
                      /\ i = Len(tr)
                      /\ \E j \in 1..(i - 1) : tr[j] = "row"
                      /\ \E j \in 1..(i - 1) : tr[j] = "online"
                 /\ (\E c \in Sock : outbox'[c] # outbox[c])
                      => tr[Len(tr)] = "broadcast"]_vars

\* A SendLocation sent over a socket has been stored and delivered.
C9_Witness ==
  \E s \in Sock, c \in Sock :
     /\ lastOp.sock = s /\ lastOp.tag = "SendLocation"
     /\ \E i \in DOMAIN outbox[c] :
          /\ outbox[c][i].type = "ReceiveLocation"
          /\ outbox[c][i].id \in RowIds(locations)
     /\ nevents = 2

\* C10: the ReceiveLocations reply to GetDeviceHistory and the pong reply to
\* ping are written to the socket that sent the request and to no other.
C10_ReplyToRequesterOnly ==
  [][\A s \in Sender, raw \in Seen(RequestFrames), io \in BOOLEAN :
       Handled(s, raw, io)
       => /\ \A c \in Sock \ {s} : outbox'[c] = outbox[c]
          /\ ~onMessage(s, raw, now', io).threw =>
               /\ Len(outbox'[s]) = Len(outbox[s]) + 1
               /\ Appended(s)
               /\ outbox'[s][Len(outbox'[s])].type =
                    (IF raw.type = "ping" THEN "pong" ELSE "ReceiveLocations")]_vars

\* Two registered open connections without subscriptions: one holds a pong
\* and a ReceiveLocations reply, the other, accepted earlier, holds neither.
C10_Witness ==
  \E s \in Sock, c \in Sock :
     /\ c < s /\ InRegistry(c) /\ InRegistry(s)
     /\ readyState[c] = "OPEN" /\ readyState[s] = "OPEN"
     /\ deviceGroups[c] = {} /\ deviceGroups[s] = {}
     /\ \E i \in DOMAIN outbox[s] : outbox[s][i].type = "pong"
     /\ \E i \in DOMAIN outbox[s] : outbox[s][i].type = "ReceiveLocations"
     /\ Len(outbox[c]) = 1

HistoryFrames ==
  {raw \in RawFrames : raw.kind = "object" /\ raw.type = "GetDeviceHistory"}

EmptyReply == Frame("ReceiveLocations", NoId, Undefined, 0, {})

C12_InvalidRangeEmptyReply ==
  [][\A s \in Sender, raw \in Seen(HistoryFrames), io \in BOOLEAN :
       (Range(raw) = "invalid" /\ Handled(s, raw, io))
       => /\ outbox'[s] = Append(outbox[s], EmptyReply)
          /\ readyState'[s] = "OPEN"
          /\ InRegistry(s) => s \in Registered(connectedClients')]_vars

\* C13: a SendLocation that takes a device from not online to online emits
\* DeviceStatusChanged for that device to the registered open connections, and
\* a SendLocation for a device that is online already emits none.
C13_StatusChangeOnTransition ==
  [][\A s \in Sender, raw \in Seen(SendLocationFrames), io \in BOOLEAN :
       (raw.deviceId \in Dev /\ Handled(s, raw, io))
       => \A c \in Sock :
            (InRegistry(c) /\ readyState[c] = "OPEN" /\ deviceGroups[c] = {})
            => ((\E i \in DOMAIN NewFrames(c) :
                    /\ NewFrames(c)[i].type = "DeviceStatusChanged"
                    /\ NewFrames(c)[i].deviceId = raw.deviceId)
                <=> (devices[raw.deviceId] # "online"
                       /\ devices'[raw.deviceId] = "online"))]_vars

\* Sockets that were accepted and whose close has not been handled.
Live == {c \in Sock : readyState[c] \in {"OPEN", "CLOSING"}}

\* C20: the ids of the live connections differ, and every live connection
\* keeps its own registry entry.
C20_LiveIdsDistinct ==
  /\ \A c \in Live, o \in Live : c # o => clientId[c] # clientId[o]
  /\ \A c \in Live : InRegistry(c)

\* ---------------------------------------------- properties of the consumer
DelayTable == <<1000, 2000, 4000, 8000, 16000, 30000, 30000>>

GaveUp ==
  /\ connection.state = "Disconnected"
  /\ connection.previousRetryCount = maxReconnectAttempts

\* C15: the 10th consecutive failed reconnect attempt closes the connection
\* and notifies the observers with connected = false; every earlier failure
\* leaves the retry timer armed; once it has given up the controller starts
\* nothing until the caller calls connect().
C15_GivesUpAfterTen ==
  [][/\ (RetryFails /\ connection.previousRetryCount = maxReconnectAttempts - 1)
          => /\ connection'.state = "Disconnected"
             /\ ~connection'.timer
             /\ ~service'.isConnected
             /\ service'.notified = Append(service.notified, FALSE)
     /\ (RetryFails /\ connection.previousRetryCount < maxReconnectAttempts - 1)
          => /\ connection'.state = "Reconnecting"
             /\ connection'.timer
             /\ service'.notified = service.notified
     /\ GaveUp => /\ ~connection'.timer
                  /\ connection'.state # "Disconnected" => connect]_vars

\* Ten attempts have failed after a drop: the connection is closed and the
\* last thing the observers saw is connected = false.
C15_Witness ==
  /\ GaveUp /\ ~connection.timer /\ ~service.isConnected
  /\ caller.ndrops = 1
  /\ Len(service.notified) = 3
  /\ service.notified[3] = FALSE

\* The controller is closed: not connected and no retry timer armed.
Closed ==
  /\ connection.state = "Disconnected"
  /\ ~connection.timer
  /\ ~service.isConnected

\* C16: disconnect() returns with the controller closed and the connected
\* flag false, from every state: at once when the connection is Disconnected
\* or waits for a retry, and when the transport has closed otherwise; while
\* it is pending and after it has returned no retry timer is armed and no
\* retry runs, and only a connect() of the caller leaves the closed state.
C16_DisconnectCloses ==
  [][/\ (disconnect /\ connection.state \in {"Disconnected", "Reconnecting"})
          => Closed'
     /\ (disconnect /\ connection.state \in {"Connected", "Connecting"})
          => (connection'.state = "Disconnecting" /\ ~connection'.timer)
     /\ StopCompletes => Closed'
     /\ connection.state = "Disconnecting"
          => (~connection'.timer /\ ~RetrySucceeds /\ ~RetryFails
              /\ connection'.state \in {"Disconnecting", "Disconnected"})
     /\ connection.state = "Disconnected"
          => (~connection'.timer /\ ~RetrySucceeds /\ ~RetryFails
              /\ (connection'.state # "Disconnected" => connect))]_vars

\* disconnect() was called while the timer of the third retry was armed: the
\* observers saw connected, reconnecting, closed and the disconnect itself.
C16_Witness ==
  /\ Closed
  /\ connection.previousRetryCount = 2
  /\ caller.ncalls = 2 /\ caller.ndrops = 1
  /\ service.notified = <<TRUE, FALSE, FALSE, FALSE>>

\* C17: a connect() on a connection that is Disconnected starts it; when the
\* start succeeds the controller is Connected, reconnectAttempts is 0, the
\* observers are called with true and the call resolves; when it fails the
\* controller is Disconnected with the connected flag false, the observers are
\* called with false, the call rejects, no retry timer is armed and nothing
\* but another connect() of the caller starts the connection again.
C17_InitialConnect ==
  [][/\ (connect /\ connection.state = "Disconnected")
          => (connection'.state = "Connecting" /\ service' = service)
     /\ StartSucceeds
          => /\ connection'.state = "Connected"
             /\ service'.isConnected
             /\ service'.reconnectAttempts = 0
             /\ service'.notified = Append(service.notified, TRUE)
             /\ caller'.connectResult = "resolved"
     /\ StartFails
          => /\ connection'.state = "Disconnected"
             /\ ~service'.isConnected
             /\ service'.notified = Append(service.notified, FALSE)
             /\ caller'.connectResult = "rejected"
             /\ ~connection'.timer
     /\ (connection.state = "Disconnected" /\ caller.connectResult = "rejected")
          => /\ ~connection'.timer
             /\ connection'.state # "Disconnected" => connect]_vars

\* The first connect() has failed: the call rejected, the observers saw
\* false once, and the connection is back in Disconnected with no timer.
C17_Witness ==
  /\ connection.state = "Disconnected" /\ ~service.isConnected
  /\ ~connection.timer
  /\ caller.connectResult = "rejected"
  /\ caller.ncalls = 1 /\ caller.ndrops = 0
  /\ service.notified = <<FALSE>>

C19_SubscriptionsReplayed ==
  [][RetrySucceeds => connection'.groups = caller.joined]_vars

\* C21: once the close event or the error event of a connection has been
\* handled the connection is no longer in the registry, and the handler has
\* removed at most that one entry.
C21_EntryDestroyedOnCloseOrError ==
  [][\A s \in Sock : (Close(s) \/ Error(s)) =>
       /\ s \notin Registered(connectedClients')
       /\ Len(connectedClients') >= Len(connectedClients) - 1]_vars

\* C24: the number getConnectedClients reports is the number of connections
\* that were accepted and whose close has not been handled.
C24_CountMatchesLive == getConnectedClients = Cardinality(Live)

\* C26: a JoinDeviceGroup frame that carries no deviceId leaves the
\* subscription set of its sender as it was, so that a sender with the empty
\* set still has the empty set and is a target of every broadcast.
C26_JoinWithoutDeviceKeepsSet ==
  [][\A s \in Sender, raw \in Seen({JoinFrame(Undefined)}), io \in BOOLEAN :
       Handled(s, raw, io) =>
          /\ deviceGroups'[s] = deviceGroups[s]
          /\ deviceGroups[s] = {} => \A d \in Dev : Subscribed(deviceGroups'[s], d)]_vars

\* Frames whose handler calls the storage collaborator.
StorageFrames == SendLocationFrames \cup HistoryFrames

\* C22: when insertLocation or getLocationsByTimeRange throws while a
\* SendLocation or GetDeviceHistory is handled, the throw ends that handler
\* only: no transport changes state, the registry, the subscription sets and
\* what the connections have received stay as they were, and the sender is
\* open, so that the hub handles its next frame.
C22_StorageFailureCaught ==
  [][\A s \in Sender, raw \in Seen(StorageFrames), io \in BOOLEAN :
       (Handled(s, raw, io) /\ onMessage(s, raw, now', io).threw)
       => /\ readyState' = readyState
          /\ readyState'[s] = "OPEN"
          /\ connectedClients' = connectedClients
          /\ deviceGroups' = deviceGroups
          /\ outbox' = outbox]_vars

\* The only frame handled so far is a SendLocation whose row was written and
\* whose file write failed; its sender is open and registered.
C22_Witness ==
  \E s \in Sock :
     /\ nevents = 2
     /\ lastOp.sock = s /\ lastOp.tag = "SendLocation"
     /\ locations # {} /\ nbcast = 0
     /\ readyState[s] = "OPEN" /\ InRegistry(s)

\* C25: when the persist call of a SendLocation throws, no connection
\* receives a frame and no subscription set changes; when it returns, the
\* update is broadcast once: every connection receives at most one frame,
\* a ReceiveLocation of that device, and every registered open connection
\* subscribed to the device receives it.
C25_BroadcastOnlyAfterPersist ==
  [][\A s \in Sender, raw \in Seen(SendLocationFrames), io \in BOOLEAN :
       Handled(s, raw, io) =>
          IF onMessage(s, raw, now', io).threw
          THEN outbox' = outbox /\ deviceGroups' = deviceGroups /\ nbcast' = nbcast
          ELSE /\ nbcast' = nbcast + 1
               /\ deviceGroups' = deviceGroups
               /\ \A c \in Sock :
                    /\ Appended(c)
                    /\ Len(NewFrames(c)) <= 1
                    /\ Len(NewFrames(c)) = CountLocation(NewFrames(c), raw.deviceId)
                    /\ (InRegistry(c) /\ readyState[c] = "OPEN"
                          /\ Subscribed(deviceGroups[c], raw.deviceId))
                       => Len(NewFrames(c)) = 1]_vars

\* An update of device 2 was stored and delivered once; then a SendLocation
\* for device 1 wrote its row, failed to save, and reached no connection.
C25_Witness ==
  \E s \in Sock :
     /\ lastOp.sock = s /\ lastOp.tag = "SendLocation" /\ lastOp.dev = 1
     /\ \E r \in locations : r.device_id = 1
     /\ nbcast = 1
     /\ InRegistry(s) /\ readyState[s] = "OPEN" /\ deviceGroups[s] = {}
     /\ CountLocation(outbox[s], 2) = 1
     /\ ~HasLocation(s, 1)

\* C27: a DeviceStatusChanged for device D sent by broadcastDeviceStatus is
\* written to a registered open connection exactly when the subscription set
\* of that connection is empty or contains D.
C27_StatusTargetSelection ==
  [][\A d \in Dev, status \in Status : broadcastDeviceStatus(d, status) =>
       \A c \in Sock : (InRegistry(c) /\ readyState[c] = "OPEN") =>
          /\ Appended(c)
          /\ Len(NewFrames(c)) = 1 <=> Subscribed(deviceGroups[c], d)]_vars

\* C28: a disconnect() made on a Connected connection, once stop() has
\* finished, has called each connection observer with false exactly once.
C28_DisconnectNotifiesOnce ==
  [][(StopCompletes /\ connection.started /\ connection.stopWaiters = 1)
       => service'.notified = Append(service.notified, FALSE)]_vars

\* Number(v) as the claim wants it applied: a number stays, a string that
\* spells a number becomes that number, anything else becomes absent.
Coerced(v) ==
  IF v.t = "number" THEN v
  ELSE IF v.t = "string" /\ v.v # NaN THEN Val("number", v.v)
  ELSE UndefinedVal

\* C23: every numeric field of the LocationUpdate built from a SendLocation
\* is the number its field of the message spells, or absent when it spells
\* none; a message whose latitude and longitude are numbers or spell numbers
\* is persisted and broadcast whatever its other fields hold, and the frame
\* carries the coerced fields.
C23_NumericFieldsCoerced ==
  decoded.handled =>
     /\ \A f \in NumericFields :
           decoded.location[f] = Coerced(decoded.message[f])
     /\ (Coerced(decoded.message.latitude) # UndefinedVal
           /\ Coerced(decoded.message.longitude) # UndefinedVal)
        => /\ decoded.persisted /\ decoded.broadcast
           /\ \A f \in NumericFields :
                 decoded.frame[f] = Coerced(decoded.message[f])

\* The array without the element that registration n pushed.
WithoutReg(list, n) == SelectSeq(list, LAMBDA e : e.reg # n)

\* C29: a call of an unsubscribe function removes from its callback array
\* the element pushed by the registration that returned it, when that element
\* is still there, and nothing else: every other element, also one holding
\* the same function, stays in place, and a repeated call changes nothing.
C29_UnsubscribeRemovesOwnRegistration ==
  [][\A h \in handles : Unsubscribe(h) =>
       callbacks' = [callbacks EXCEPT ![h.kind] = WithoutReg(@, h.reg)]]_vars

\* The points held for device D.
PointsOf(points, D) == {e \in points : e.location.deviceId = D}

\* C30: updatePoint(location) for device D leaves exactly one point for D,
\* the new one, and leaves the points of every other device as they were.
C30_UpdateReplacesOwnPointsOnly ==
  [][\A location \in HeatLocations : updatePoint(location) =>
       /\ PointsOf(dataPoints', location.deviceId) =
             {[key |-> KeyOf(location), location |-> location]}
       /\ \A D \in DeviceNames \ {location.deviceId} :
             PointsOf(dataPoints', D) = PointsOf(dataPoints, D)]_vars

====
